---- MODULE Spec2Model ----
(***************************************************************************)
(* Model of Hector's time series container, tseries<T_data>                *)
(* (headers/data/tseries.hpp): the std::map of samples, the interpolation  *)
(* policy (lastInterpYear, endinterp_allowed), the dirty flag and the      *)
(* h_interpolator the container owns.                                      *)
(*                                                                         *)
(* Times are an order-preserving sample of the double line: the integers   *)
(* -NegTimes..MaxTime.  The code only ever compares times, so only their   *)
(* order matters.  Grid point DblMin stands for                            *)
(* std::numeric_limits<double>::min(), the smallest POSITIVE normal double *)
(* (0 and the negative times lie below it), and DblMax for                 *)
(* std::numeric_limits<double>::max(), above every time of the grid.       *)
(*                                                                         *)
(* The numerical fit is a black box (h_interpolator is not part of the     *)
(* sources at hand): a value the engine returns is kept symbolic, as the   *)
(* pair (samples the engine was fitted from, point of evaluation).         *)
(***************************************************************************)
EXTENDS Integers, FiniteSets, Sequences, TLC

\* ---------------------------------------------------------------- bounds
NegTimes == 1
MaxTime == 3
MaxSamples == 3
NumVals == 2
NumUnits == 2
MaxUnitSamples == 2
MaxCores == 2
MaxLog == 2
MaxDates == 2
NumDates == 1
NumMsgVals == 1

Times == (0 - NegTimes)..MaxTime
Vals == 1..NumVals

\* ------------------------------------------------------ program constants
DblMin == 1
DblMax == 99
DEFAULT == "DEFAULT"

\* The error kinds, told apart by the message the h_exception carries.
InterpolationNotPermitted == "Interpolation requested but not allowed"
ExtrapolationNotPermitted == "end interpolation not allowed"
InsufficientSamples == "time series data must have size>1"
EmptySeries == "no mapdata"

\* --------------------------------------------------------------- values
EmptyMap == [x \in {} |-> 0]

\* A number handed back to the caller: a stored sample (lit > 0), or the
\* engine's model evaluated at a point (lit = 0).
Lit(d) == [lit |-> d, model |-> EmptyMap, at |-> 0]
NoVal == Lit(0)

Return(v) == [err |-> "", val |-> v]
Throw(msg) == [err |-> msg, val |-> NoVal]

\* A quantity with a unit: unitval's two members.
Units == 1..NumUnits

unitval(v, u) == [val |-> v, valUnits |-> u]

units(uv) == uv.valUnits

\* value( expectedUnits ): the magnitude as stored, in the quantity's own
\* unit.
unitval_value(uv, expectedUnits) == uv.val

UnitVals == {unitval(Lit(m), u) : m \in Vals, u \in Units}

\* ------------------------------------------------ interpolation engine
\* h_interpolator: the method selector and the engine's own copy of the
\* samples it was last fitted from.
NewInterpolator == [method |-> "none", fitted |-> FALSE, data |-> EmptyMap]

set_method(ip, m) == [ip EXCEPT !.method = m]

newdata(ip, xy) == [ip EXCEPT !.fitted = TRUE, !.data = xy]

f(ip, index) == [lit |-> 0, model |-> ip.data, at |-> index]

\* ------------------------------------------------------ tseries, pure
\* A series s is the record of the object's fields.
size(s) == Cardinality(DOMAIN s.mapdata)

exists(s, t) == t \in DOMAIN s.mapdata

MapBegin(m) == CHOOSE k \in DOMAIN m : \A j \in DOMAIN m : k <= j
MapRBegin(m) == CHOOSE k \in DOMAIN m : \A j \in DOMAIN m : k >= j

\* The iterator is taken from the wrong end.
first_rbegin(s) == IF DOMAIN s.mapdata = {} THEN Throw(EmptySeries)
                   ELSE Return(Lit(MapRBegin(s.mapdata)))

first(s) == IF DOMAIN s.mapdata = {} THEN Throw(EmptySeries)
            ELSE Return(Lit(MapBegin(s.mapdata)))

last(s) == IF DOMAIN s.mapdata = {} THEN Throw(EmptySeries)
           ELSE Return(Lit(MapRBegin(s.mapdata)))

MapPut(m, t, d) == [k \in (DOMAIN m) \cup {t} |-> IF k = t THEN d ELSE m[k]]

\* The policy change forgets to raise dirty.
set_interp_noDirty(s, ia, eia, m) ==
    [s EXCEPT !.lastInterpYear = ia,
              !.endinterp_allowed = eia,
              !.interpolator = set_method(@, m)]

set_interp(s, ia, eia, m) ==
    [s EXCEPT !.lastInterpYear = ia,
              !.endinterp_allowed = eia,
              !.interpolator = set_method(@, m),
              !.dirty = TRUE]

tseries ==
    [set_interp([mapdata |-> EmptyMap, lastInterpYear |-> 0,
                 endinterp_allowed |-> FALSE, dirty |-> FALSE,
                 interpolator |-> NewInterpolator],
                DblMin, FALSE, DEFAULT)
     EXCEPT !.dirty = FALSE]

\* std::map::insert in place of operator[]: an existing sample is kept.
set_insert(s, t, d) ==
    LET s1 == IF t \in DOMAIN s.mapdata THEN s
              ELSE [s EXCEPT !.mapdata = MapPut(@, t, d)]
    IN  IF t < s.lastInterpYear THEN [s1 EXCEPT !.dirty = TRUE] ELSE s1

\* The dirty flag is never raised.
set_noDirty(s, t, d) == [s EXCEPT !.mapdata = MapPut(@, t, d)]

\* The cutoff follows the series: a set beyond a cutoff that was last()
\* moves the cutoff along.
set_liveCutoff(s, t, d) ==
    LET s1 == [s EXCEPT !.mapdata = MapPut(@, t, d)]
        s2 == IF DOMAIN s.mapdata # {} /\ s.lastInterpYear = MapRBegin(s.mapdata)
              THEN [s1 EXCEPT !.lastInterpYear = MapRBegin(s1.mapdata)]
              ELSE s1
    IN  IF t < s.lastInterpYear THEN [s2 EXCEPT !.dirty = TRUE] ELSE s2

\* The comparison with the cutoff slips to <=.
set_dirtyAtCutoff(s, t, d) ==
    LET s1 == [s EXCEPT !.mapdata = MapPut(@, t, d)]
    IN  IF t <= s.lastInterpYear THEN [s1 EXCEPT !.dirty = TRUE] ELSE s1

set(s, t, d) ==
    LET s1 == [s EXCEPT !.mapdata = MapPut(@, t, d)]
    IN  IF t < s.lastInterpYear THEN [s1 EXCEPT !.dirty = TRUE] ELSE s1

\* The outcome of a call that may change the object: the object after the
\* call, what the caller gets, whether the engine was refitted, and the
\* warnings written to the global logger.
Outcome(s, r, refitted, w) == [state |-> s, res |-> r, refit |-> refitted, warned |-> w]

\* The beyond-end check is left out.
interp_noEndCheck(s, index) ==
    IF ~(size(s) > 1)
    THEN Outcome(s, Throw(InsufficientSamples), FALSE, FALSE)
    ELSE LET s1 == IF s.dirty
                   THEN [s EXCEPT !.interpolator = newdata(@, s.mapdata),
                                  !.dirty = FALSE]
                   ELSE s
         IN  Outcome(s1, Return(f(s1.interpolator, index)), s.dirty, FALSE)

\* The size check accepts a single sample.
interp_sizeAtLeastOne(s, index) ==
    IF ~(size(s) > 0)
    THEN Outcome(s, Throw(InsufficientSamples), FALSE, FALSE)
    ELSE LET s1 == IF s.dirty
                   THEN [s EXCEPT !.interpolator = newdata(@, s.mapdata),
                                  !.dirty = FALSE]
                   ELSE s
             beyond == \/ index < MapBegin(s.mapdata)
                       \/ index > MapRBegin(s.mapdata)
         IN  IF beyond /\ ~s.endinterp_allowed
             THEN Outcome(s1, Throw(ExtrapolationNotPermitted), s.dirty, FALSE)
             ELSE Outcome(s1, Return(f(s1.interpolator, index)), s.dirty, FALSE)

\* The beyond-end check comes before the refit.
interp_endCheckFirst(s, index) ==
    IF ~(size(s) > 1)
    THEN Outcome(s, Throw(InsufficientSamples), FALSE, FALSE)
    ELSE LET s1 == IF s.dirty
                   THEN [s EXCEPT !.interpolator = newdata(@, s.mapdata),
                                  !.dirty = FALSE]
                   ELSE s
             beyond == \/ index < MapBegin(s.mapdata)
                       \/ index > MapRBegin(s.mapdata)
         IN  IF beyond /\ ~s.endinterp_allowed
             THEN Outcome(s, Throw(ExtrapolationNotPermitted), FALSE, FALSE)
             ELSE Outcome(s1, Return(f(s1.interpolator, index)), s.dirty, FALSE)

\* The refit forgets to clear isDirty.
interp_keepDirty(s, index) ==
    IF ~(size(s) > 1)
    THEN Outcome(s, Throw(InsufficientSamples), FALSE, FALSE)
    ELSE LET s1 == IF s.dirty
                   THEN [s EXCEPT !.interpolator = newdata(@, s.mapdata)]
                   ELSE s
             beyond == \/ index < MapBegin(s.mapdata)
                       \/ index > MapRBegin(s.mapdata)
         IN  IF beyond /\ ~s.endinterp_allowed
             THEN Outcome(s1, Throw(ExtrapolationNotPermitted), s.dirty, FALSE)
             ELSE Outcome(s1, Return(f(s1.interpolator, index)), s.dirty, FALSE)

interp(s, index) ==
    IF ~(size(s) > 1)
    THEN Outcome(s, Throw(InsufficientSamples), FALSE, FALSE)
    ELSE LET s1 == IF s.dirty
                   THEN [s EXCEPT !.interpolator = newdata(@, s.mapdata),
                                  !.dirty = FALSE]
                   ELSE s
             beyond == \/ index < MapBegin(s.mapdata)
                       \/ index > MapRBegin(s.mapdata)
         IN  IF beyond /\ ~s.endinterp_allowed
             THEN Outcome(s1, Throw(ExtrapolationNotPermitted), s.dirty, FALSE)
             ELSE Outcome(s1, Return(f(s1.interpolator, index)), s.dirty, FALSE)

\* The unit is taken from the sample at the far end.
interp_unitval_rbeginUnits(s, index) ==
    IF ~(size(s) > 1)
    THEN Outcome(s, Throw(InsufficientSamples), FALSE, FALSE)
    ELSE LET y == [k \in DOMAIN s.mapdata |->
                      unitval_value(s.mapdata[k], units(s.mapdata[k]))]
             s1 == IF s.dirty
                   THEN [s EXCEPT !.interpolator = newdata(@, y),
                                  !.dirty = FALSE]
                   ELSE s
             beyond == \/ index < MapBegin(s.mapdata)
                       \/ index > MapRBegin(s.mapdata)
         IN  IF beyond /\ ~s.endinterp_allowed
             THEN Outcome(s1, Throw(ExtrapolationNotPermitted), s.dirty, FALSE)
             ELSE Outcome(s1,
                          Return(unitval(f(s1.interpolator, index),
                                         units(s.mapdata[MapRBegin(s.mapdata)]))),
                          s.dirty, FALSE)

\* interp_helper<unitval>::interp: the fit is fed each sample's magnitude in
\* the sample's own unit; the result takes the unit of the sample at
\* userData.begin().
interp_unitval(s, index) ==
    IF ~(size(s) > 1)
    THEN Outcome(s, Throw(InsufficientSamples), FALSE, FALSE)
    ELSE LET y == [k \in DOMAIN s.mapdata |->
                      unitval_value(s.mapdata[k], units(s.mapdata[k]))]
             s1 == IF s.dirty
                   THEN [s EXCEPT !.interpolator = newdata(@, y),
                                  !.dirty = FALSE]
                   ELSE s
             beyond == \/ index < MapBegin(s.mapdata)
                       \/ index > MapRBegin(s.mapdata)
         IN  IF beyond /\ ~s.endinterp_allowed
             THEN Outcome(s1, Throw(ExtrapolationNotPermitted), s.dirty, FALSE)
             ELSE Outcome(s1,
                          Return(unitval(f(s1.interpolator, index),
                                         units(s.mapdata[MapBegin(s.mapdata)]))),
                          s.dirty, FALSE)

\* get of tseries<unitval>.
get_unitval(s, t) ==
    IF exists(s, t)
    THEN Outcome(s, Return(s.mapdata[t]), FALSE, FALSE)
    ELSE IF t < s.lastInterpYear
         THEN interp_unitval(s, t)
         ELSE Outcome(s, Throw(InterpolationNotPermitted), FALSE, TRUE)

\* The cutoff is not consulted: every miss goes to interp.
get_noCutoff(s, t) ==
    IF exists(s, t)
    THEN Outcome(s, Return(Lit(s.mapdata[t])), FALSE, FALSE)
    ELSE interp(s, t)

get(s, t) ==
    IF exists(s, t)
    THEN Outcome(s, Return(Lit(s.mapdata[t])), FALSE, FALSE)
    ELSE IF t < s.lastInterpYear
         THEN interp(s, t)
         ELSE Outcome(s, Throw(InterpolationNotPermitted), FALSE, TRUE)

\* The constructor's cutoff is passed on.
allowInterp_minCutoff(s, eia) == Outcome(set_interp(s, DblMin, eia, DEFAULT), Return(NoVal), FALSE, FALSE)

allowInterp(s, eia) == Outcome(set_interp(s, DblMax, eia, DEFAULT), Return(NoVal), FALSE, FALSE)

\* The policy is written before last() is asked for the cutoff.
allowPartialInterp_policyFirst(s, eia) ==
    LET l == last(s)
    IN  IF l.err # ""
        THEN Outcome(set_interp(s, s.lastInterpYear, eia, DEFAULT), l, FALSE, FALSE)
        ELSE Outcome(set_interp(s, l.val.lit, eia, DEFAULT), Return(NoVal), FALSE, FALSE)

\* allowInterp's cutoff is passed on.
allowPartialInterp_maxCutoff(s, eia) ==
    LET l == last(s)
    IN  IF l.err # ""
        THEN Outcome(s, l, FALSE, FALSE)
        ELSE Outcome(set_interp(s, DblMax, eia, DEFAULT), Return(NoVal), FALSE, FALSE)

allowPartialInterp(s, eia) ==
    LET l == last(s)
    IN  IF l.err # ""
        THEN Outcome(s, l, FALSE, FALSE)
        ELSE Outcome(set_interp(s, l.val.lit, eia, DEFAULT), Return(NoVal), FALSE, FALSE)

\* ------------------------------------------------- the R wrapper, pure
\* What Rcpp::stop carries, by call site.
InvalidIndex == "hector::run:  invalid index"
LengthError == "Value must have length 1 or same length as date."
SendError == "sendmessage: "
RunError == "Error while running hector:  "
NoFile == "Input file does not exist."
ParseError == "While parsing hector input file: "

\* R's NA among the elements of a numeric vector, and the vectors passed
\* to sendmessage.
NA_REAL == 0 - 7
DateElems == (1..NumDates) \cup {NA_REAL}
ValueElems == (1..NumMsgVals) \cup {NA_REAL}
SeqsUpTo(S, lo, hi) == UNION {[1..n -> S] : n \in lo..hi}

\* Hector::Core's registry of instances.  A pointer to the instance with
\* index idx is idx itself; NULL is no instance.  An instance is the record
\* of what it was asked to do.
NULL == 0 - 1
undefinedIndex == 0 - 1
NoCore == [live |-> FALSE, log |-> <<>>]
NewCoreInstance == [live |-> TRUE, log |-> <<>>]

mkcore(reg) == [reg |-> Append(reg, NewCoreInstance), idx |-> Len(reg)]

getcore(reg, idx) ==
    IF (idx + 1) \in DOMAIN reg /\ reg[idx + 1].live THEN idx ELSE NULL

delcore(reg, idx) ==
    IF (idx + 1) \in DOMAIN reg THEN [reg EXCEPT ![idx + 1] = NoCore] ELSE reg

\* hcore->run( runtodate ) and hcore->sendMessage( ... ): the instance
\* takes the request.
CoreRun(runtodate) == [op |-> "run", date |-> runtodate, value |-> 0]
CoreMessage(tempdate, tempval) ==
    [op |-> "sendMessage", date |-> tempdate, value |-> tempval]

CoreTakes(reg, hcore, requests) ==
    IF (hcore + 1) \in DOMAIN reg
    THEN [reg EXCEPT ![hcore + 1].log = @ \o requests]
    ELSE reg

\* hcore->getCurrentDate(): the date of the last run, 0 before any.
getCurrentDate(reg, hcore) ==
    IF (hcore + 1) \notin DOMAIN reg THEN 0
    ELSE LET log == reg[hcore + 1].log
             runs == {i \in DOMAIN log : log[i].op = "run"}
         IN  IF runs = {} THEN 0
             ELSE log[CHOOSE i \in runs : \A j \in runs : j <= i].date

\* The handle newcore returns: element 0 the index, element 4 the active
\* flag (the dates and the file name play no part in any call).
Handle(coreidx, active) == [idx |-> coreidx, active |-> active]

\* What a wrapper call leaves behind: the registry, the error raised ("" if
\* none), the returned handle, data frame or number, and the message the
\* core threw on (0 if none).
Called(reg, err, rv, frame, num, failed) ==
    [reg |-> reg, err |-> err, rv |-> rv, frame |-> frame, num |-> num,
     failed |-> failed]

\* The pointer is handed on unchecked.
gethcore_noCheck(reg, core) == [err |-> "", hcore |-> getcore(reg, core.idx)]

gethcore(reg, core) ==
    LET hcore == getcore(reg, core.idx)
    IN  IF hcore = NULL
        THEN [err |-> InvalidIndex, hcore |-> NULL]
        ELSE [err |-> "", hcore |-> hcore]

\* outcome: "ok", "nofile" (the input file cannot be opened) or "parsefail"
\* (the parser throws, after mkcore).
newcore(reg, outcome) ==
    IF outcome = "nofile"
    THEN Called(reg, NoFile, Handle(NULL, FALSE), <<>>, 0, 0)
    ELSE LET m == mkcore(reg)
         IN  IF outcome = "parsefail"
             THEN Called(m.reg, ParseError, Handle(NULL, FALSE), <<>>, 0, 0)
             ELSE Called(m.reg, "", Handle(m.idx, TRUE), <<>>, 0, 0)

shutdown(reg, core) ==
    Called(delcore(reg, core.idx), "", [core EXCEPT !.active = FALSE], <<>>, 0, 0)

\* throws: the core's run throws an h_exception.
run(reg, core, runtodate, throws) ==
    LET g == gethcore(reg, core)
    IN  IF g.err # ""
        THEN Called(reg, g.err, core, <<>>, 0, 0)
        ELSE Called(CoreTakes(reg, g.hcore, <<CoreRun(runtodate)>>),
                    IF throws THEN RunError ELSE "", core, <<>>, 0, 0)

getdate(reg, core) ==
    LET g == gethcore(reg, core)
    IN  IF g.err # ""
        THEN Called(reg, g.err, core, <<>>, 0, 0)
        ELSE Called(reg, "", core, <<>>, getCurrentDate(reg, g.hcore), 0)

\* An NA value goes to the core as it is.
sendmessage_keepNA(reg, core, date, value, throwsAt) ==
    LET g == gethcore(reg, core)
        N == Len(date)
        msg(i) == LET ival == IF Len(value) = 1 THEN 1 ELSE i
                      tempdate == IF date[i] = NA_REAL THEN undefinedIndex
                                  ELSE date[i]
                  IN  CoreMessage(tempdate, value[ival])
        done == IF throwsAt <= N THEN throwsAt - 1 ELSE N
        reg1 == CoreTakes(reg, g.hcore, [i \in 1..done |-> msg(i)])
    IN  IF g.err # ""
        THEN Called(reg, g.err, core, <<>>, 0, 0)
        ELSE IF Len(value) # Len(date) /\ Len(value) # 1
        THEN Called(reg, LengthError, core, <<>>, 0, 0)
        ELSE IF throwsAt <= N
        THEN Called(reg1, SendError, core, <<>>, 0, throwsAt)
        ELSE Called(reg1, "", core,
                    [i \in 1..N |-> [date |-> date[i], reply |-> msg(i)]], 0, 0)

\* throwsAt: the message (1..N) on which the core throws an h_exception;
\* beyond N, none does.  Message i is the i-th element of date, 1-based.
sendmessage(reg, core, date, value, throwsAt) ==
    LET g == gethcore(reg, core)
        N == Len(date)
        msg(i) == LET ival == IF Len(value) = 1 THEN 1 ELSE i
                      tempval == IF value[ival] = NA_REAL THEN 0
                                 ELSE value[ival]
                      tempdate == IF date[i] = NA_REAL THEN undefinedIndex
                                  ELSE date[i]
                  IN  CoreMessage(tempdate, tempval)
        done == IF throwsAt <= N THEN throwsAt - 1 ELSE N
        reg1 == CoreTakes(reg, g.hcore, [i \in 1..done |-> msg(i)])
    IN  IF g.err # ""
        THEN Called(reg, g.err, core, <<>>, 0, 0)
        ELSE IF Len(value) # Len(date) /\ Len(value) # 1
        THEN Called(reg, LengthError, core, <<>>, 0, 0)
        ELSE IF throwsAt <= N
        THEN Called(reg1, SendError, core, <<>>, 0, throwsAt)
        ELSE Called(reg1, "", core,
                    [i \in 1..N |-> [date |-> date[i], reply |-> msg(i)]], 0, 0)

\* ------------------------------------------------------------ the state
\* The object's fields, and three records of the calls made on it: lastOp,
\* the last call and what it gave; written, the value last passed to set
\* per time; policyBy, the call that set the policy in force.
VARIABLES mapdata, lastInterpYear, endinterp_allowed, dirty, interpolator,
          lastOp, written, policyBy

\* The R wrapper: the registry of core instances behind Hector::Core, the
\* handles the R session holds, and the last wrapper call with its outcome.
VARIABLES core_registry, handles, lastCall

tsvars == <<mapdata, lastInterpYear, endinterp_allowed, dirty, interpolator,
            lastOp, written, policyBy>>

rvars == <<core_registry, handles, lastCall>>

vars == <<tsvars, rvars>>

\* The object as it stands.
Self == [mapdata |-> mapdata, lastInterpYear |-> lastInterpYear,
         endinterp_allowed |-> endinterp_allowed, dirty |-> dirty,
         interpolator |-> interpolator]

Install(s) ==
    /\ mapdata' = s.mapdata
    /\ lastInterpYear' = s.lastInterpYear
    /\ endinterp_allowed' = s.endinterp_allowed
    /\ dirty' = s.dirty
    /\ interpolator' = s.interpolator

\* The call that produced the current state.
Op(name, t, eia, o) == [op |-> name, t |-> t, eia |-> eia, res |-> o.res,
                        refit |-> o.refit, warned |-> o.warned]

\* The wrapper call that produced the current state.
Call(fn, core, date, value, c) ==
    [fn |-> fn, core |-> core, date |-> date, value |-> value, err |-> c.err,
     rv |-> c.rv, frame |-> c.frame, num |-> c.num, failed |-> c.failed]

Init ==
    /\ mapdata = tseries.mapdata
    /\ lastInterpYear = tseries.lastInterpYear
    /\ endinterp_allowed = tseries.endinterp_allowed
    /\ dirty = tseries.dirty
    /\ interpolator = tseries.interpolator
    /\ lastOp = Op("tseries", 0, FALSE, Outcome(tseries, Return(NoVal), FALSE, FALSE))
    /\ written = EmptyMap
    /\ policyBy = "tseries"
    /\ core_registry = <<>>
    /\ handles = {}
    /\ lastCall = Call("", Handle(NULL, FALSE), <<>>, <<>>,
                       Called(<<>>, "", Handle(NULL, FALSE), <<>>, 0, 0))

\* set( t, d ): the caller stores d at t.  `written' remembers, per time,
\* the value the caller passed last.
Set(t, d) ==
    /\ exists(Self, t) \/ size(Self) < MaxSamples
    /\ Install(set(Self, t, d))
    /\ lastOp' = Op("set", t, FALSE, Outcome(Self, Return(NoVal), FALSE, FALSE))
    /\ written' = MapPut(written, t, d)
    /\ UNCHANGED <<policyBy, rvars>>

\* get( t ): the dirty flag and the interpolator are mutable from get.
Get(t) ==
    LET o == get(Self, t)
    IN  /\ Install(o.state)
        /\ lastOp' = Op("get", t, FALSE, o)
        /\ UNCHANGED <<written, policyBy, rvars>>

AllowInterp(eia) ==
    LET o == allowInterp(Self, eia)
    IN  /\ Install(o.state)
        /\ lastOp' = Op("allowInterp", 0, eia, o)
        /\ policyBy' = "allowInterp"
        /\ UNCHANGED <<written, rvars>>

AllowPartialInterp(eia) ==
    LET o == allowPartialInterp(Self, eia)
    IN  /\ Install(o.state)
        /\ lastOp' = Op("allowPartialInterp", 0, eia, o)
        /\ policyBy' = IF o.res.err = "" THEN "allowPartialInterp" ELSE policyBy
        /\ UNCHANGED <<written, rvars>>

\* first() and last() are const: the object is left as it is.
First ==
    /\ Install(Self)
    /\ lastOp' = Op("first", 0, FALSE, Outcome(Self, first(Self), FALSE, FALSE))
    /\ UNCHANGED <<written, policyBy, rvars>>

Last ==
    /\ Install(Self)
    /\ lastOp' = Op("last", 0, FALSE, Outcome(Self, last(Self), FALSE, FALSE))
    /\ UNCHANGED <<written, policyBy, rvars>>

Next ==
    \/ \E t \in Times, d \in Vals : Set(t, d)
    \/ \E t \in Times : Get(t)
    \/ \E eia \in BOOLEAN : AllowInterp(eia)
    \/ \E eia \in BOOLEAN : AllowPartialInterp(eia)
    \/ First
    \/ Last

Spec == Init /\ [][Next]_vars

\* ------------------------------------------- a series of unitval samples
\* tseries<unitval>: the same object with quantities for samples.
SetUnitval(t, d) ==
    /\ exists(Self, t) \/ size(Self) < MaxUnitSamples
    /\ Install(set(Self, t, d))
    /\ lastOp' = Op("set", t, FALSE, Outcome(Self, Return(NoVal), FALSE, FALSE))
    /\ written' = MapPut(written, t, d)
    /\ UNCHANGED <<policyBy, rvars>>

GetUnitval(t) ==
    LET o == get_unitval(Self, t)
    IN  /\ Install(o.state)
        /\ lastOp' = Op("get", t, FALSE, o)
        /\ UNCHANGED <<written, policyBy, rvars>>

NextUnitval ==
    \/ \E t \in Times, d \in UnitVals : SetUnitval(t, d)
    \/ \E t \in Times : GetUnitval(t)
    \/ \E eia \in BOOLEAN : AllowInterp(eia)
    \/ \E eia \in BOOLEAN : AllowPartialInterp(eia)

SpecUnitval == Init /\ [][NextUnitval]_vars

\* ----------------------------------------------------- the R wrapper
\* The R session calls the exported functions with handles it holds.  A
\* handle passed to shutdown stays with the session next to the one
\* shutdown returns.
LogOf(core) == core_registry[core.idx + 1].log

NewCore(outcome) ==
    LET c == newcore(core_registry, outcome)
    IN  /\ Len(core_registry) < MaxCores
        /\ core_registry' = c.reg
        /\ handles' = IF c.err = "" THEN handles \cup {c.rv} ELSE handles
        /\ lastCall' = Call("newcore", Handle(NULL, FALSE), <<>>, <<>>, c)
        /\ UNCHANGED tsvars

Shutdown(core) ==
    LET c == shutdown(core_registry, core)
    IN  /\ core_registry' = c.reg
        /\ handles' = handles \cup {c.rv}
        /\ lastCall' = Call("shutdown", core, <<>>, <<>>, c)
        /\ UNCHANGED tsvars

Run(core, runtodate, throws) ==
    LET c == run(core_registry, core, runtodate, throws)
    IN  /\ getcore(core_registry, core.idx) # NULL => Len(LogOf(core)) < MaxLog
        /\ core_registry' = c.reg
        /\ lastCall' = Call("run", core, <<runtodate>>, <<>>, c)
        /\ UNCHANGED <<handles, tsvars>>

GetDate(core) ==
    LET c == getdate(core_registry, core)
    IN  /\ core_registry' = c.reg
        /\ lastCall' = Call("getdate", core, <<>>, <<>>, c)
        /\ UNCHANGED <<handles, tsvars>>

SendMessage(core, date, value, throwsAt) ==
    LET c == sendmessage(core_registry, core, date, value, throwsAt)
    IN  /\ getcore(core_registry, core.idx) # NULL
              => Len(LogOf(core)) + Len(date) <= MaxLog
        /\ core_registry' = c.reg
        /\ lastCall' = Call("sendmessage", core, date, value, c)
        /\ UNCHANGED <<handles, tsvars>>

NextRcpp ==
    \/ \E outcome \in {"ok", "nofile", "parsefail"} : NewCore(outcome)
    \/ \E core \in handles : Shutdown(core)
    \/ \E core \in handles, runtodate \in 1..NumDates, throws \in BOOLEAN :
          Run(core, runtodate, throws)
    \/ \E core \in handles : GetDate(core)
    \/ \E core \in handles, date \in SeqsUpTo(DateElems, 1, MaxDates),
          value \in SeqsUpTo(ValueElems, 0, MaxDates), throwsAt \in 1..(MaxDates + 1) :
          /\ throwsAt <= Len(date) + 1
          /\ SendMessage(core, date, value, throwsAt)

SpecRcpp == Init /\ [][NextRcpp]_vars

TypeOK ==
    /\ DOMAIN mapdata \subseteq Times
    /\ \A k \in DOMAIN mapdata : mapdata[k] \in Vals
    /\ lastInterpYear \in Times \cup {DblMin, DblMax}
    /\ endinterp_allowed \in BOOLEAN
    /\ dirty \in BOOLEAN
    /\ DOMAIN written = DOMAIN mapdata

\* A miss: a get at a time with no stored sample.
IsGet == lastOp.op = "get"
IsMiss == IsGet /\ lastOp.t \notin DOMAIN mapdata
IsHit == IsGet /\ lastOp.t \in DOMAIN mapdata

\* ------------------------------------------------------------------ C1
\* C1: a get at a time that has a stored sample returns exactly the value
\* passed to the most recent set at that time, whatever the cutoff, the
\* extrapolation flag and the dirty flag are, and the step changes neither
\* the dirty flag nor the engine (no refit).
C1_ExactGet ==
    [][ (lastOp'.op = "get" /\ lastOp'.t \in DOMAIN mapdata)
          => /\ lastOp'.res = Return(Lit(written[lastOp'.t]))
             /\ ~lastOp'.refit
             /\ dirty' = dirty
             /\ interpolator' = interpolator ]_vars

\* An exact get of an overwritten sample on a dirty series that allows
\* interpolation everywhere: the engine still holds the older value.
C1_Witness ==
    /\ IsHit
    /\ lastOp.res = Return(Lit(2))
    /\ dirty /\ endinterp_allowed /\ lastInterpYear = DblMax
    /\ interpolator.fitted
    /\ lastOp.t \in DOMAIN interpolator.data
    /\ interpolator.data[lastOp.t] = 1

\* ------------------------------------------------------------------ C2
\* C2: on a series whose policy was never changed since construction,
\* every get at a time with no stored sample fails with
\* InterpolationNotPermitted (and so never reaches interp), whatever the
\* time is.
C2_DefaultPolicyRefuses ==
    (IsMiss /\ policyBy = "tseries") => lastOp.res = Throw(InterpolationNotPermitted)

\* ------------------------------------------------------------------ C3
\* C3: whenever the series is not dirty and the engine has been fitted,
\* the samples the engine was last fitted from are the container's
\* current samples.
C3_FitIsCurrent ==
    (~dirty /\ interpolator.fitted) => interpolator.data = mapdata

\* ------------------------------------------------------------------ C4
\* C4 (as stated): a set at a time at or after the cutoff never changes the
\* outcome of a get at any other time.
C4_SetBeyondCutoffIsInvisible ==
    [][ (lastOp'.op = "set" /\ lastOp'.t >= lastInterpYear)
          => \A t2 \in Times \ {lastOp'.t} :
                 get(Self', t2).res = get(Self, t2).res ]_vars

\* C4 (amended): a set at a time at or after the cutoff leaves the dirty
\* flag, the cutoff, the extrapolation flag and the engine as they were;
\* and when the series was not dirty and held at least two samples, the
\* outcome of a get at any other time not above last() is the same with
\* and without the set.
C4_SetBeyondCutoffFrame ==
    [][ (lastOp'.op = "set" /\ lastOp'.t >= lastInterpYear)
          => /\ dirty' = dirty
             /\ interpolator' = interpolator
             /\ lastInterpYear' = lastInterpYear
             /\ endinterp_allowed' = endinterp_allowed
             /\ (~dirty /\ size(Self) > 1)
                  => \A t2 \in Times \ {lastOp'.t} :
                         t2 <= MapRBegin(mapdata)
                           => get(Self', t2).res = get(Self, t2).res ]_vars

\* A set at the cutoff has overwritten a sample the engine was fitted
\* from, on a series that is not dirty.
C4_Witness ==
    /\ lastOp.op = "set"
    /\ lastOp.t >= lastInterpYear
    /\ ~dirty
    /\ interpolator.fitted
    /\ lastOp.t \in DOMAIN interpolator.data
    /\ interpolator.data[lastOp.t] # mapdata[lastOp.t]

\* ------------------------------------------------------------------ C5
\* C5: after a get at a time with no stored sample, the same get made
\* again at once has the same outcome and refits nothing; when the first
\* returned a value the series is not dirty after it, nor after the second.
C5_RepeatedGet ==
    IsMiss =>
        LET again == get(Self, lastOp.t)
        IN  /\ again.res = lastOp.res
            /\ ~again.refit
            /\ lastOp.res.err = "" => (~dirty /\ ~again.state.dirty)

\* A get on a miss that refitted the engine and returned its value.
C5_Witness ==
    /\ IsMiss
    /\ lastOp.refit
    /\ lastOp.res.err = ""
    /\ lastOp.res.val.model = mapdata

\* ------------------------------------------------------------------ C6
\* A step that changes what the engine must be fitted to: a set below the
\* cutoff, or a policy call that got as far as set_interp.
Invalidates(op) ==
    \/ op.op = "set" /\ op.t < lastInterpYear
    \/ op.op = "allowInterp"
    \/ op.op = "allowPartialInterp" /\ op.res.err = ""

\* C6: a set below the cutoff and every policy call leave the series dirty;
\* on a series with at least two samples a get at a miss time before the
\* cutoff refits the engine exactly when the series is dirty, from the full
\* current sample set, and leaves it not dirty, so that the gets after it
\* refit nothing; and the series becomes dirty again only by a set below
\* the cutoff or a policy call.
C6_LazyRefit ==
    [][ /\ Invalidates(lastOp') => dirty'
        /\ (~dirty /\ dirty') => Invalidates(lastOp')
        /\ ( /\ lastOp'.op = "get"
             /\ lastOp'.t \notin DOMAIN mapdata
             /\ lastOp'.t < lastInterpYear
             /\ size(Self) > 1 )
             => /\ lastOp'.refit = dirty
                /\ ~dirty'
                /\ dirty => /\ interpolator'.fitted
                            /\ interpolator'.data = mapdata
                /\ ~dirty => interpolator' = interpolator ]_vars

\* A get that refitted the engine from three samples, the engine having
\* been fitted before from fewer.
C6_Witness ==
    /\ IsMiss
    /\ lastOp.refit
    /\ lastOp.res.err = ""
    /\ size(Self) = 3
    /\ interpolator.data = mapdata

\* ------------------------------------------------------------------ C7
Beyond(t) == t < MapBegin(mapdata) \/ t > MapRBegin(mapdata)

\* C7: on a series with at least two samples, a get at a miss time before
\* the cutoff and outside [first(), last()] returns the engine's value if
\* extrapolation is allowed and fails with ExtrapolationNotPermitted if it
\* is not; at a miss time before the cutoff and inside the range it
\* returns the engine's value whatever the flag is.
C7_Extrapolation ==
    (IsMiss /\ size(Self) > 1 /\ lastOp.t < lastInterpYear)
      => /\ (Beyond(lastOp.t) /\ ~endinterp_allowed)
              => lastOp.res = Throw(ExtrapolationNotPermitted)
         /\ (~Beyond(lastOp.t) \/ endinterp_allowed)
              => lastOp.res = Return(f(interpolator, lastOp.t))

\* A get beyond the last sample answered by the engine.
C7_Witness ==
    /\ IsMiss
    /\ size(Self) > 1
    /\ lastOp.t > MapRBegin(mapdata)
    /\ endinterp_allowed
    /\ lastOp.res.err = ""
    /\ lastOp.res.val.model = mapdata

\* ------------------------------------------------------------------ C8
\* The series of scenario A, up to the order of its times: three samples,
\* the cutoff at the last of them, extrapolation not allowed.
ScenarioA ==
    /\ size(Self) = 3
    /\ policyBy = "allowPartialInterp"
    /\ lastInterpYear = MapRBegin(mapdata)
    /\ ~endinterp_allowed

\* C8 (as stated): with the cutoff set by allowPartialInterp, still at
\* last(), and extrapolation not allowed,
\* a get at a miss time after last() fails with ExtrapolationNotPermitted.
C8_BeyondLastIsExtrapolation ==
    ( /\ IsMiss
      /\ policyBy = "allowPartialInterp"
      /\ lastInterpYear = MapRBegin(mapdata)
      /\ ~endinterp_allowed
      /\ lastOp.t > MapRBegin(mapdata) )
      => lastOp.res = Throw(ExtrapolationNotPermitted)

\* C8 (amended): with the cutoff set by allowPartialInterp, still at
\* last(), and extrapolation not allowed, a
\* get at a miss time after last() fails with InterpolationNotPermitted;
\* on the three-sample series a get at a miss time between two samples
\* returns the engine's value.
C8_BeyondLastIsNotPermitted ==
    ( /\ IsMiss
      /\ policyBy = "allowPartialInterp"
      /\ lastInterpYear = MapRBegin(mapdata)
      /\ ~endinterp_allowed )
      => /\ lastOp.t > MapRBegin(mapdata)
              => lastOp.res = Throw(InterpolationNotPermitted)
         /\ (ScenarioA /\ ~Beyond(lastOp.t))
              => lastOp.res = Return(f(interpolator, lastOp.t))

\* Scenario A's second get: refused after the last of three samples, the
\* cutoff having been set by allowPartialInterp.
C8_Witness ==
    /\ ScenarioA
    /\ IsMiss
    /\ lastOp.t > MapRBegin(mapdata)
    /\ lastOp.res = Throw(InterpolationNotPermitted)
    /\ interpolator.fitted

\* ------------------------------------------------------------------ C9
\* C9: on a series with fewer than two samples, a get at a miss time
\* before the cutoff fails with InsufficientSamples, whatever the
\* extrapolation flag is, and leaves the dirty flag and the engine as they
\* were.
C9_InsufficientSamples ==
    [][ ( /\ lastOp'.op = "get"
          /\ lastOp'.t \notin DOMAIN mapdata
          /\ lastOp'.t < lastInterpYear
          /\ size(Self) < 2 )
          => /\ lastOp'.res = Throw(InsufficientSamples)
             /\ ~lastOp'.refit
             /\ dirty' = dirty
             /\ interpolator' = interpolator ]_vars

\* The failure on a dirty one-sample series that allows extrapolation.
C9_Witness ==
    /\ IsMiss
    /\ size(Self) = 1
    /\ dirty /\ endinterp_allowed
    /\ lastOp.t > MapRBegin(mapdata)
    /\ lastOp.res = Throw(InsufficientSamples)

\* ----------------------------------------------------------------- C10
\* C10: allowPartialInterp(e) on a non-empty series sets the cutoff to
\* last() as it is at the call, the extrapolation flag to e, and marks the
\* series dirty; no set changes the cutoff; and a get at a miss time at or
\* after the cutoff fails with InterpolationNotPermitted, also when that
\* time is before last(), while a get at a miss time before the cutoff
\* does not fail that way.
C10_CutoffSnapshot ==
    [][ /\ (lastOp'.op = "allowPartialInterp" /\ DOMAIN mapdata # {})
             => /\ lastInterpYear' = MapRBegin(mapdata)
                /\ endinterp_allowed' = lastOp'.eia
                /\ dirty'
                /\ mapdata' = mapdata
        /\ lastOp'.op = "set" => lastInterpYear' = lastInterpYear
        /\ (lastOp'.op = "get" /\ lastOp'.t \notin DOMAIN mapdata)
             => (lastOp'.res = Throw(InterpolationNotPermitted)
                   <=> lastOp'.t >= lastInterpYear) ]_vars

\* A get refused between the cutoff snapshot and a last() that a later set
\* has moved on.
C10_Witness ==
    /\ IsMiss
    /\ policyBy = "allowPartialInterp"
    /\ lastInterpYear \in DOMAIN mapdata
    /\ lastInterpYear < lastOp.t
    /\ lastOp.t < MapRBegin(mapdata)
    /\ lastOp.res = Throw(InterpolationNotPermitted)

C12_SetEffect ==
    [][ lastOp'.op = "set"
          => LET t == lastOp'.t
             IN  /\ DOMAIN mapdata' = DOMAIN mapdata \cup {t}
                 /\ mapdata'[t] = written'[t]
                 /\ \A k \in DOMAIN mapdata \ {t} : mapdata'[k] = mapdata[k]
                 /\ dirty' = (dirty \/ t < lastInterpYear)
                 /\ lastInterpYear' = lastInterpYear
                 /\ endinterp_allowed' = endinterp_allowed
                 /\ interpolator' = interpolator
                 /\ size(Self') = size(Self) + (IF t \in DOMAIN mapdata THEN 0 ELSE 1)
      ]_vars

\* A set exactly at the cutoff that left a three-sample series not dirty.
C12_Witness ==
    /\ lastOp.op = "set"
    /\ lastOp.t = lastInterpYear
    /\ policyBy = "allowPartialInterp"
    /\ size(Self) = 3
    /\ ~dirty
    /\ interpolator.fitted

\* ----------------------------------------------------------------- C13
\* C13: a get that fails with InterpolationNotPermitted or with
\* ExtrapolationNotPermitted has written a warning to the logger; a get
\* that succeeds or fails with InsufficientSamples has written none.
C13_RefusalWarns ==
    IsGet => (lastOp.warned
                <=> lastOp.res.err \in {InterpolationNotPermitted,
                                        ExtrapolationNotPermitted})

\* ----------------------------------------------------------------- C18
\* C18: while the policy in force is one allowPartialInterp set, the cutoff
\* is a stored time not after last(); so a get at a miss time that the
\* engine answers outside the sample range is before first(), and no get
\* at a miss time after last() is answered with a value.
C18_PartialCutoffBelowLast ==
    policyBy = "allowPartialInterp"
      => /\ lastInterpYear \in DOMAIN mapdata
         /\ lastInterpYear <= MapRBegin(mapdata)
         /\ (IsMiss /\ lastOp.res.err = "")
              => /\ lastOp.t < MapRBegin(mapdata)
                 /\ Beyond(lastOp.t) => lastOp.t < MapBegin(mapdata)

\* An extrapolated value at the low end under allowPartialInterp(true).
C18_Witness ==
    /\ policyBy = "allowPartialInterp"
    /\ endinterp_allowed
    /\ IsMiss
    /\ lastOp.t < MapBegin(mapdata)
    /\ lastOp.res = Return(f(interpolator, lastOp.t))
    /\ lastInterpYear < MapRBegin(mapdata)

\* ----------------------------------------------------------------- C19
\* C19: a get on a miss checks the cutoff, then size > 1, then refits when
\* dirty, then checks extrapolation, then evaluates.  A get that fails
\* with InterpolationNotPermitted or InsufficientSamples leaves the dirty
\* flag and the engine as they were; one that fails with
\* ExtrapolationNotPermitted on a dirty series has refitted the engine from
\* the current samples and leaves the series not dirty.  No get changes
\* the samples, the cutoff or the extrapolation flag.
C19_CheckOrder ==
    [][ lastOp'.op = "get"
          => LET t == lastOp'.t
                 e == lastOp'.res.err
                 miss == t \notin DOMAIN mapdata
             IN  /\ mapdata' = mapdata
                 /\ lastInterpYear' = lastInterpYear
                 /\ endinterp_allowed' = endinterp_allowed
                 /\ (miss /\ t >= lastInterpYear) => e = InterpolationNotPermitted
                 /\ (miss /\ t < lastInterpYear /\ size(Self) < 2)
                      => e = InsufficientSamples
                 /\ e \in {InterpolationNotPermitted, InsufficientSamples}
                      => /\ dirty' = dirty
                         /\ interpolator' = interpolator
                         /\ ~lastOp'.refit
                 /\ e = ExtrapolationNotPermitted
                      => /\ ~dirty'
                         /\ lastOp'.refit = dirty
                         /\ dirty => interpolator' = newdata(interpolator, mapdata)
                         /\ ~dirty => interpolator' = interpolator
      ]_vars

\* A get refused for extrapolation that has refitted the engine on its way.
C19_Witness ==
    /\ IsMiss
    /\ lastOp.res = Throw(ExtrapolationNotPermitted)
    /\ lastOp.refit
    /\ ~dirty
    /\ interpolator.data = mapdata

\* ----------------------------------------------------------------- C20
\* C20: no get evaluates an engine that was never fitted: a value the
\* engine hands back comes from a fitted engine, and in every state no get
\* would evaluate the engine without a fit.
C20_NeverUnfitted ==
    /\ (IsMiss /\ lastOp.res.err = "")
         => (interpolator.fitted /\ DOMAIN lastOp.res.val.model # {})
    /\ \A t \in Times :
         LET o == get(Self, t)
         IN  (t \notin DOMAIN mapdata /\ o.res.err = "")
               => o.state.interpolator.fitted

\* The constructor's state survives sets: not dirty, never fitted, two
\* samples, and a get below the cutoff that stopped short of the engine.
C20_Witness ==
    /\ IsMiss
    /\ lastOp.t < lastInterpYear
    /\ size(Self) > 1
    /\ ~dirty
    /\ ~interpolator.fitted
    /\ lastOp.res = Throw(ExtrapolationNotPermitted)

\* ----------------------------------------------------------------- C14
\* C14: first() and last() fail with EmptySeries exactly when size() is
\* zero and change no state; on a non-empty series they return the smallest
\* and the largest time ever set.  In every non-empty state first() <=
\* last(), exists(first()) and exists(last()) hold and every stored time
\* lies between them; first() never increases and last() never decreases.
C14_FirstLast ==
    /\ [](size(Self) > 0
            => LET fi == first(Self).val.lit
                   la == last(Self).val.lit
               IN  /\ first(Self).err = "" /\ last(Self).err = ""
                   /\ fi <= la
                   /\ exists(Self, fi) /\ exists(Self, la)
                   /\ \A t \in Times : exists(Self, t) => (fi <= t /\ t <= la))
    /\ [][ /\ lastOp'.op \in {"first", "last"}
             => /\ Self' = Self
                /\ lastOp'.res.err \in {"", EmptySeries}
                /\ (lastOp'.res.err = EmptySeries) <=> (size(Self) = 0)
                /\ size(Self) > 0
                     => /\ lastOp'.res.val.lit \in DOMAIN written
                        /\ \A k \in DOMAIN written :
                             IF lastOp'.op = "first"
                             THEN lastOp'.res.val.lit <= k
                             ELSE lastOp'.res.val.lit >= k
           /\ (mapdata # EmptyMap /\ mapdata' # mapdata)
             => /\ first(Self').val.lit <= first(Self).val.lit
                /\ last(Self').val.lit >= last(Self).val.lit
         ]_vars

\* last() answered on a series of three samples that spans the whole grid.
C14_Witness ==
    /\ lastOp.op = "last"
    /\ size(Self) = 3
    /\ lastOp.res = Return(Lit(MaxTime))
    /\ first(Self) = Return(Lit(0 - NegTimes))

\* ----------------------------------------------------------------- C15
\* C15: in a series of quantities, a value returned by an interpolated get
\* carries the unit of the sample with the smallest time at the moment of
\* the get, even when other samples carry another unit; the fit is handed
\* each sample's magnitude as stored, in the sample's own unit; a value
\* returned on an exact match carries the unit it was set with.
C15_UnitOfFirstSample ==
    /\ (IsMiss /\ lastOp.res.err = "")
         => /\ units(lastOp.res.val) = units(written[MapBegin(mapdata)])
            /\ lastOp.res.val.val = f(interpolator, lastOp.t)
    /\ (IsGet /\ lastOp.refit)
         => interpolator.data = [k \in DOMAIN mapdata |-> written[k].val]
    /\ IsHit => lastOp.res = Return(written[lastOp.t])

\* An interpolated value on two samples of different units, just refitted.
C15_Witness ==
    /\ IsMiss
    /\ lastOp.res.err = ""
    /\ lastOp.refit
    /\ size(Self) = 2
    /\ units(mapdata[MapBegin(mapdata)]) # units(mapdata[MapRBegin(mapdata)])
    /\ mapdata[MapBegin(mapdata)].val # mapdata[MapRBegin(mapdata)].val

\* ----------------------------------------------------------------- C16
\* C16: once shutdown has been called on a handle, every later run,
\* getdate or sendmessage on that handle (or a copy of it) raises an error
\* and operates on no core instance; the handle shutdown returns has its
\* active field false; calls on other, still active handles are
\* unaffected.
Dead(reg, core) == getcore(reg, core.idx) = NULL

Others(reg, core) == [i \in DOMAIN reg \ {core.idx + 1} |-> reg[i]]

C16_ShutdownIsFinal ==
    [][ /\ lastCall'.fn = "shutdown"
          => /\ ~lastCall'.rv.active
             /\ lastCall'.rv.idx = lastCall'.core.idx
             /\ lastCall'.err = ""
             /\ Dead(core_registry', lastCall'.core)
             /\ Others(core_registry', lastCall'.core)
                  = Others(core_registry, lastCall'.core)
        /\ \A h \in handles : Dead(core_registry, h) => Dead(core_registry', h)
        /\ (lastCall'.fn \in {"run", "getdate", "sendmessage"}
              /\ Dead(core_registry, lastCall'.core))
          => /\ lastCall'.err = InvalidIndex
             /\ lastCall'.frame = <<>>
             /\ core_registry' = core_registry
        /\ (lastCall'.fn \in {"run", "getdate", "sendmessage"}
              /\ ~Dead(core_registry, lastCall'.core))
          => /\ lastCall'.err # InvalidIndex
             /\ Others(core_registry', lastCall'.core)
                  = Others(core_registry, lastCall'.core)
             /\ lastCall'.fn = "getdate"
                  => /\ lastCall'.err = ""
                     /\ lastCall'.num = getCurrentDate(core_registry, lastCall'.core.idx)
      ]_vars

\* A sendmessage refused on a handle copy that still reads active, after
\* the core was shut down, while the other core has taken requests.
C16_Witness ==
    /\ lastCall.fn = "sendmessage"
    /\ lastCall.core.active
    /\ lastCall.err = InvalidIndex
    /\ Len(lastCall.date) = Len(lastCall.value)
    /\ \E h \in handles : /\ ~Dead(core_registry, h)
                          /\ LogOf(h) # <<>>

\* ----------------------------------------------------------------- C17
\* C17: on a live handle, sendmessage with a value whose length is neither
\* 1 nor the length of date fails before any message reaches the core;
\* otherwise the core gets one message per element of date, in order, with
\* value[0] for every date when value has length 1 and value[i] for
\* date[i] otherwise, an NA value sent as 0 and an NA date as the undefined
\* index, and the call returns one row per date.  When message i fails,
\* the messages before it have been delivered and nothing is returned.
Expected(date, value, i) ==
    LET v == IF Len(value) = 1 THEN value[1] ELSE value[i]
    IN  CoreMessage(IF date[i] = NA_REAL THEN undefinedIndex ELSE date[i],
                    IF v = NA_REAL THEN 0 ELSE v)

C17_SendMessage ==
    [][ (lastCall'.fn = "sendmessage" /\ ~Dead(core_registry, lastCall'.core))
          => LET c == lastCall'
                 N == Len(c.date)
                 before == LogOf(c.core)
                 after == core_registry'[c.core.idx + 1].log
                 sent == Len(after) - Len(before)
             IN  /\ SubSeq(after, 1, Len(before)) = before
                 /\ (Len(c.value) # 1 /\ Len(c.value) # N)
                      => /\ c.err = LengthError
                         /\ sent = 0
                         /\ c.frame = <<>>
                 /\ (Len(c.value) = 1 \/ Len(c.value) = N)
                      => /\ c.err \in {"", SendError}
                         /\ \A i \in 1..sent :
                              after[Len(before) + i] = Expected(c.date, c.value, i)
                         /\ c.err = ""
                              => /\ sent = N
                                 /\ Len(c.frame) = N
                                 /\ \A i \in 1..N : c.frame[i].date = c.date[i]
                         /\ c.err = SendError
                              => /\ c.failed \in 1..N
                                 /\ sent = c.failed - 1
                                 /\ c.frame = <<>>
      ]_vars

\* The second of two messages fails: the first one, with the recycled NA
\* value and the NA date, has reached the core.
C17_Witness ==
    /\ lastCall.fn = "sendmessage"
    /\ lastCall.err = SendError
    /\ lastCall.failed = 2
    /\ lastCall.value = <<NA_REAL>>
    /\ lastCall.date[1] = NA_REAL
    /\ LogOf(lastCall.core) = <<CoreMessage(undefinedIndex, 0)>>

\* ----------------------------------------------------------------- C21
\* C21: allowPartialInterp(e) on an empty series fails with EmptySeries
\* and leaves the cutoff, the extrapolation flag, the dirty flag and the
\* engine's method as they were: the series is not marked dirty and the
\* flag does not become e.  On a non-empty series the call does not fail.
C21_PartialOnEmpty ==
    [][ lastOp'.op = "allowPartialInterp"
          => /\ (size(Self) = 0) <=> (lastOp'.res = Throw(EmptySeries))
             /\ size(Self) > 0 => lastOp'.res.err = ""
             /\ size(Self) = 0
                  => /\ lastInterpYear' = lastInterpYear
                     /\ endinterp_allowed' = endinterp_allowed
                     /\ dirty' = dirty
                     /\ interpolator' = interpolator
                     /\ mapdata' = mapdata
                     /\ policyBy' = policyBy
      ]_vars

\* allowPartialInterp(true) refused on the series as constructed: the flag
\* is still false and the series is not dirty.
C21_Witness ==
    /\ lastOp.op = "allowPartialInterp"
    /\ lastOp.eia
    /\ lastOp.res = Throw(EmptySeries)
    /\ ~endinterp_allowed
    /\ ~dirty
    /\ lastInterpYear = DblMin
    /\ size(Self) = 0
====
